---------------------------- MODULE Spec2Model ----------------------------
(***************************************************************************)
(* OMAP2/3 PRM module functions (arch/arm/mach-omap2/prm2xxx_3xxx.c).      *)
(*                                                                         *)
(* A u32 is modelled exactly as the set of the positions of its 1-bits     *)
(* (a subset of 0..31): AND is intersection, OR is union, NOT is the       *)
(* complement in 0..31, 1 << k is {k}.  An s16 module offset is an         *)
(* integer in -32768..32767.  A register address base + module + idx is    *)
(* the pair <<region, module + idx>>, the region naming the ioremapped     *)
(* base (prm_base, cm_base, cm2_base).                                     *)
(*                                                                         *)
(* Every register access of a function is one step of its caller; the      *)
(* hardware (the reset status latch, the interrupt status bits) moves      *)
(* between the steps.                                                      *)
(***************************************************************************)
EXTENDS Integers, Sequences, FiniteSets, TLC

VARIABLES
    chip,   \* cpu_is_omap24xx() || cpu_is_omap34xx()
    mem,    \* the memory-mapped registers, address -> u32
    pc,     \* per caller: where it stands in the function it runs
    op,     \* per caller: the function it runs, or ran last
    args,   \* per caller: the arguments of that function
    rmw,    \* per caller: frame of omap2_prm_rmw_mod_reg_bits (mask, bits, addr, v)
    c,      \* per caller: the poll counter of omap2_prm_deassert_hardreset
    ret,    \* per caller: the int a function returned
    val,    \* per caller: the u32 a function returned
    log,    \* per caller: the register accesses of the call, in order
    raced,  \* per caller: another caller wrote the register since this one read it
    prev,   \* per caller: the call before the one of op, and what it returned
    hwev,   \* the hardware has changed a register since the last call was entered
    undef   \* per caller: the call evaluated __ffs() of zero, which has no defined result

vars == <<chip, mem, pc, op, args, rmw, c, ret, val, log, raced, prev, hwev, undef>>

---------------------------------------------------------------------------
(* u32 arithmetic *)

WordBits == 32

U32Ones == 0 .. (WordBits - 1)

Bit(k) == {k}

And(a, b) == a \cap b

Or(a, b) == a \cup b

Not(a) == U32Ones \ a

\* a >> k for 0 <= k < 32
Shr(a, k) == {i - k : i \in {j \in a : j >= k}}

\* __ffs(mask): the index of the lowest set bit, mask non-zero
ffs(mask) == CHOOSE i \in mask : \A j \in mask : i <= j

\* (int) of a u32 below 2^31
RECURSIVE U32ToInt(_)
U32ToInt(a) ==
    IF a = {} THEN 0
    ELSE LET i == CHOOSE x \in a : TRUE IN 2 ^ i + U32ToInt(a \ {i})

---------------------------------------------------------------------------
(* constants of the headers (errno.h, prcm-common.h, prm2xxx_3xxx.h,         *)
(* prm-regbits-34xx.h) *)

EINVAL == 22
EEXIST == 17
EBUSY == 16

OMAP2_RM_RSTCTRL == 80
OMAP2_RM_RSTST == 88
OCP_MOD == 0
OMAP3_PRM_IRQSTATUS_MPU_OFFSET == 24
OMAP3430_IVA2_MOD == -2048

OMAP3430_VP1_TRANXDONE_ST_MASK == Bit(15)
OMAP3430_VP2_TRANXDONE_ST_MASK == Bit(21)
OMAP3630_ABB_LDO_TRANXDONE_ST_MASK == Bit(26)

OMAP3_PRM_IRQ_VDD_MPU_ID == 0
OMAP3_PRM_IRQ_VDD_CORE_ID == 1

\* the base selector packed into the module argument of the CM router
DEFAULT_BASE == 0
PRM_BASE == 1
PRCM_MPU_BASE == 2
CM2_BASE == 3
BASE_ID_SHIFT == 13
MOD_MASK == 8191

\* the poll budget of omap2_prm_deassert_hardreset, scaled down
MAX_MODULE_HARDRESET_WAIT == 3

---------------------------------------------------------------------------
(* the inputs *)

Callers == {1, 2}

PrmMods == {OMAP3430_IVA2_MOD}

RstShifts == {0, 1}

StShifts == {8, 9}

\* masks handed to omap2_prm_read_mod_bits_shift: zero, single bits, a
\* contiguous field and a field with a hole
BitsMasks == {{}, Bit(0), 4 .. 7, {4, 6}, Bit(31), U32Ones}

\* register contents it is run on
BitsRegs == {{}, {5, 7}, {0, 5, 7, 11}, {4, 6, 8, 31}, U32Ones}

BitsIdx == {OMAP2_RM_RSTCTRL, OMAP2_RM_RSTST}

\* bits handed to omap2_prm_set_mod_reg_bits and omap2_prm_clear_mod_reg_bits
SetClearBits == {{}, Bit(0), {1, 2}, {2, 8}}

\* bits of RSTCTRL and RSTST that belong to no line the callers name
OtherCtrlBits == {2}

OtherStBits == {0}

\* the transaction-done bits of PRM_IRQSTATUS_MPU, and a bit of another source
IrqBits == {15, 21, 26}

OtherIrqBits == {0}

RmwMasks == {Bit(0), {1, 2}, U32Ones}

RmwBits == {{}, Bit(0), Bit(2)}

IrqIds == {OMAP3_PRM_IRQ_VDD_MPU_ID, OMAP3_PRM_IRQ_VDD_CORE_ID}

\* what two racing callers of the read-modify-write write: <<mask, bits>>
RaceUpdates == {<<Bit(0), Bit(0)>>, <<Bit(0), {}>>, <<Bit(1), Bit(1)>>, <<{1, 2}, Bit(2)>>}

\* encoded module arguments of the router: every selector with offsets 0 and
\* 0x100, their negatives, and the least s16
RouterModules ==
    {sel * 8192 + off : sel \in 0 .. 3, off \in {0, 256}}
        \cup {-(sel * 8192 + 7936) : sel \in 0 .. 3}
        \cup {-8192, -16384, -32768}

RouterIdx == {16}

RouterVals == {{}, {0, 4}}

Regions == {"cm", "prm", "cm2"}

---------------------------------------------------------------------------
(* the registers *)

PrmAddr(module, idx) == <<"prm", module + idx>>

RstCtrlAddr(prm_mod) == PrmAddr(prm_mod, OMAP2_RM_RSTCTRL)

RstStAddr(prm_mod) == PrmAddr(prm_mod, OMAP2_RM_RSTST)

IrqStatusAddr == PrmAddr(OCP_MOD, OMAP3_PRM_IRQSTATUS_MPU_OFFSET)

\* registers the hardware clears where a 1 is written (status registers)
IsW1C(a) == a = IrqStatusAddr \/ \E m \in PrmMods : a = RstStAddr(m)

\* __raw_readl
RawRead(m, a) == m[a]

\* __raw_writel, with what the register does with the value written
RawWrite(m, a, x) ==
    IF IsW1C(a) THEN [m EXCEPT ![a] = m[a] \ x] ELSE [m EXCEPT ![a] = x]

\* omap2_prm_read_mod_reg
omap2_prm_read_mod_reg(m, module, idx) == RawRead(m, PrmAddr(module, idx))

\* omap2_prm_write_mod_reg
omap2_prm_write_mod_reg(m, x, module, idx) == RawWrite(m, PrmAddr(module, idx), x)

\* abs() of an s16
Abs(n) == IF n < 0 THEN -n ELSE n

\* the 16 bits of an s16, as a number
AsU16(n) == IF n < 0 THEN n + 2 ^ 16 ELSE n

\* a & b of two non-negative numbers
RECURSIVE IntAnd(_, _)
IntAnd(a, b) ==
    IF a = 0 \/ b = 0 THEN 0
    ELSE (IF a % 2 = 1 /\ b % 2 = 1 THEN 1 ELSE 0) + 2 * IntAnd(a \div 2, b \div 2)

\* base = (module >> BASE_ID_SHIFT) & 0x3, without the abs()
DecodeBase_noabs(module) == (AsU16(module) \div (2 ^ BASE_ID_SHIFT)) % 4

\* cm_read_mod_reg, cm_write_mod_reg: base = abs(module) >> BASE_ID_SHIFT;
DecodeBase(module) == Abs(module) \div (2 ^ BASE_ID_SHIFT)

\* cm_read_mod_reg, cm_write_mod_reg: module &= MOD_MASK;
DecodeModule(module) == IntAnd(AsU16(module), MOD_MASK)

\* the default case of the switch falls through to the default base
BaseRegion_fallthrough(base) ==
    CASE base = PRM_BASE -> "prm"
      [] base = CM2_BASE -> "cm2"
      [] OTHER -> "cm"

\* cm_read_mod_reg, cm_write_mod_reg: switch (base): the region the access
\* goes to, "none" in the default case
BaseRegion(base) ==
    CASE base = PRM_BASE -> "prm"
      [] base = CM2_BASE -> "cm2"
      [] base = DEFAULT_BASE -> "cm"
      [] OTHER -> "none"

\* __omap_prcm_read, __omap_prcm_write: base + module + reg
PrcmAddr(region, module, reg) == <<region, module + reg>>

\* v |= bits, the bits of mask not cleared first
RmwValue_noclear(v, mask, bits) == Or(v, bits)

\* omap2_prm_rmw_mod_reg_bits, lines 46-47: v &= ~mask; v |= bits
RmwValue(v, mask, bits) == Or(And(v, Not(mask)), bits)

\* omap2_prm_read_mod_bits_shift, lines 59-60: v &= mask; v >>= __ffs(mask)
BitsShift(v, mask) == Shr(And(v, mask), ffs(mask))

\* what __ffs(mask) can yield: the index of the lowest set bit, and for
\* mask = 0, where no bit is set and the result is undefined, any bit index
FfsOutcomes(mask) == IF mask = {} THEN U32Ones ELSE {ffs(mask)}

ShiftedBits_shiftfirst(v, mask, k) == And(Shr(v, k), mask)

\* lines 59-60 with the shift amount __ffs() yielded: v &= mask; v >>= k
ShiftedBits(v, mask, k) == Shr(And(v, mask), k)

---------------------------------------------------------------------------
(* the state after boot *)

RouterAddrs ==
    {PrcmAddr(r, DecodeModule(m), i) : r \in Regions, m \in RouterModules, i \in RouterIdx}

Addrs ==
    {RstCtrlAddr(m) : m \in PrmMods} \cup {RstStAddr(m) : m \in PrmMods}
        \cup {IrqStatusAddr} \cup RouterAddrs

NoArgs ==
    [mod |-> 0, idx |-> 0, mask |-> {}, bits |-> {}, rst |-> 0, st |-> 0,
     id |-> 0, x |-> {}]

\* what is kept of the call before: the function, the reset line or rail it
\* named, and the int it returned
NoCall == [op |-> "none", rst |-> 0, st |-> 0, id |-> 0, ret |-> 0]

NoFrame == [mask |-> {}, bits |-> {}, a |-> IrqStatusAddr, v |-> {}, cont |-> "idle"]

\* the registers holding ctl in every RSTCTRL, st in every RSTST and irq in
\* PRM_IRQSTATUS_MPU
Mem(ctl, st, irq) ==
    [a \in Addrs |->
        IF \E m \in PrmMods : a = RstCtrlAddr(m) THEN ctl
        ELSE IF \E m \in PrmMods : a = RstStAddr(m) THEN st
        ELSE IF a = IrqStatusAddr THEN irq
        ELSE {}]

InitCallers ==
    /\ pc = [p \in Callers |-> "idle"]
    /\ op = [p \in Callers |-> "none"]
    /\ args = [p \in Callers |-> NoArgs]
    /\ rmw = [p \in Callers |-> NoFrame]
    /\ c = [p \in Callers |-> 0]
    /\ ret = [p \in Callers |-> 0]
    /\ val = [p \in Callers |-> {}]
    /\ log = [p \in Callers |-> <<>>]
    /\ raced = [p \in Callers |-> FALSE]
    /\ prev = [p \in Callers |-> NoCall]
    /\ hwev = FALSE
    /\ undef = [p \in Callers |-> FALSE]

\* any lines in reset, the cold-reset status latched, no interrupt pending
Init ==
    /\ chip \in BOOLEAN
    /\ \E ctl \in SUBSET (RstShifts \cup OtherCtrlBits) : mem = Mem(ctl, OtherStBits, {})
    /\ InitCallers

---------------------------------------------------------------------------
(* bookkeeping of a call *)

RD(a, x) == [k |-> "R", a |-> a, x |-> x]

WR(a, x) == [k |-> "W", a |-> a, x |-> x]

\* a function is entered: its arguments are bound, nothing is accessed yet
EnterCall(p, f, a) ==
    /\ pc[p] = "idle"
    /\ op' = [op EXCEPT ![p] = f]
    /\ args' = [args EXCEPT ![p] = a]
    /\ c' = [c EXCEPT ![p] = 0]
    /\ raced' = [raced EXCEPT ![p] = FALSE]
    /\ prev' = [prev EXCEPT ![p] =
                  [op |-> op[p], rst |-> args[p].rst, st |-> args[p].st,
                   id |-> args[p].id, ret |-> ret[p]]]
    /\ hwev' = FALSE

\* entry of a function that evaluates no expression the language leaves
\* undefined
Enter(p, f, a) ==
    /\ EnterCall(p, f, a)
    /\ undef' = [undef EXCEPT ![p] = FALSE]

\* the cpu_is_omap24xx() || cpu_is_omap34xx() gate failed: return -EINVAL
ReturnEINVAL(p) ==
    /\ ret' = [ret EXCEPT ![p] = -EINVAL]
    /\ val' = [val EXCEPT ![p] = {}]
    /\ log' = [log EXCEPT ![p] = <<>>]
    /\ pc' = [pc EXCEPT ![p] = "idle"]
    /\ rmw' = [rmw EXCEPT ![p] = NoFrame]
    /\ UNCHANGED <<chip, mem>>

\* the call of omap2_prm_rmw_mod_reg_bits(mask, bits, module, idx)
RmwFrame(mask, bits, a, cont) ==
    [mask |-> mask, bits |-> bits, a |-> a, v |-> {}, cont |-> cont]

---------------------------------------------------------------------------
(* omap2_prm_rmw_mod_reg_bits *)

\* the public entry: u32 omap2_prm_rmw_mod_reg_bits(mask, bits, module, idx)
RmwCall(p, mask, bits, module, idx) ==
    /\ Enter(p, "rmw", [NoArgs EXCEPT !.mask = mask, !.bits = bits,
                                      !.mod = module, !.idx = idx])
    /\ rmw' = [rmw EXCEPT ![p] = RmwFrame(mask, bits, PrmAddr(module, idx), "idle")]
    /\ pc' = [pc EXCEPT ![p] = "rmw_read"]
    /\ log' = [log EXCEPT ![p] = <<>>]
    /\ ret' = [ret EXCEPT ![p] = 0]
    /\ val' = [val EXCEPT ![p] = {}]
    /\ UNCHANGED <<chip, mem>>

\* v = omap2_prm_read_mod_reg(module, idx); v &= ~mask; v |= bits;
RmwRead(p) ==
    /\ pc[p] = "rmw_read"
    /\ LET f == rmw[p]
           x == RawRead(mem, f.a)
       IN /\ rmw' = [rmw EXCEPT ![p].v = RmwValue(x, f.mask, f.bits)]
          /\ log' = [log EXCEPT ![p] = Append(@, RD(f.a, x))]
    /\ raced' = [raced EXCEPT ![p] = FALSE]
    /\ pc' = [pc EXCEPT ![p] = "rmw_write"]
    /\ UNCHANGED <<chip, mem, op, args, c, ret, val, prev, hwev, undef>>

\* the register is read again and modified as the value is written: an
\* atomic read-modify-write
RmwWrite_atomic(p) ==
    /\ pc[p] = "rmw_write"
    /\ LET f == rmw[p]
           x == RmwValue(RawRead(mem, f.a), f.mask, f.bits)
       IN /\ mem' = RawWrite(mem, f.a, x)
          /\ log' = [log EXCEPT ![p] = Append(@, WR(f.a, x))]
          /\ val' = [val EXCEPT ![p] = x]
          /\ pc' = [pc EXCEPT ![p] = f.cont]
          /\ raced' = [q \in Callers |->
                          IF q # p /\ pc[q] = "rmw_write" /\ rmw[q].a = f.a
                          THEN TRUE ELSE raced[q]]
    /\ UNCHANGED <<chip, op, args, rmw, c, ret, prev, hwev, undef>>

\* the write, then the value that was read is returned
RmwWrite_retold(p) ==
    /\ pc[p] = "rmw_write"
    /\ LET f == rmw[p]
       IN /\ mem' = RawWrite(mem, f.a, f.v)
          /\ log' = [log EXCEPT ![p] = Append(@, WR(f.a, f.v))]
          /\ val' = [val EXCEPT ![p] = log[p][Len(log[p])].x]
          /\ pc' = [pc EXCEPT ![p] = f.cont]
          /\ raced' = [q \in Callers |->
                          IF q # p /\ pc[q] = "rmw_write" /\ rmw[q].a = f.a
                          THEN TRUE ELSE raced[q]]
    /\ UNCHANGED <<chip, op, args, rmw, c, ret, prev, hwev, undef>>

\* omap2_prm_write_mod_reg(v, module, idx); return v;
RmwWrite(p) ==
    /\ pc[p] = "rmw_write"
    /\ LET f == rmw[p]
       IN /\ mem' = RawWrite(mem, f.a, f.v)
          /\ log' = [log EXCEPT ![p] = Append(@, WR(f.a, f.v))]
          /\ val' = [val EXCEPT ![p] = f.v]
          /\ pc' = [pc EXCEPT ![p] = f.cont]
          /\ raced' = [q \in Callers |->
                          IF q # p /\ pc[q] = "rmw_write" /\ rmw[q].a = f.a
                          THEN TRUE ELSE raced[q]]
    /\ UNCHANGED <<chip, op, args, rmw, c, ret, prev, hwev, undef>>

\* omap2_prm_set_mod_reg_bits(bits, module, idx):
\* return omap2_prm_rmw_mod_reg_bits(bits, bits, module, idx)
omap2_prm_set_mod_reg_bits(p, bits, module, idx) ==
    /\ Enter(p, "set_bits", [NoArgs EXCEPT !.bits = bits, !.mod = module, !.idx = idx])
    /\ rmw' = [rmw EXCEPT ![p] = RmwFrame(bits, bits, PrmAddr(module, idx), "idle")]
    /\ pc' = [pc EXCEPT ![p] = "rmw_read"]
    /\ log' = [log EXCEPT ![p] = <<>>]
    /\ ret' = [ret EXCEPT ![p] = 0]
    /\ val' = [val EXCEPT ![p] = {}]
    /\ UNCHANGED <<chip, mem>>

omap2_prm_clear_mod_reg_bits_nomask(p, bits, module, idx) ==
    /\ Enter(p, "clear_bits", [NoArgs EXCEPT !.bits = bits, !.mod = module, !.idx = idx])
    /\ rmw' = [rmw EXCEPT ![p] = RmwFrame({}, {}, PrmAddr(module, idx), "idle")]
    /\ pc' = [pc EXCEPT ![p] = "rmw_read"]
    /\ log' = [log EXCEPT ![p] = <<>>]
    /\ ret' = [ret EXCEPT ![p] = 0]
    /\ val' = [val EXCEPT ![p] = {}]
    /\ UNCHANGED <<chip, mem>>

\* omap2_prm_clear_mod_reg_bits(bits, module, idx):
\* return omap2_prm_rmw_mod_reg_bits(bits, 0x0, module, idx)
omap2_prm_clear_mod_reg_bits(p, bits, module, idx) ==
    /\ Enter(p, "clear_bits", [NoArgs EXCEPT !.bits = bits, !.mod = module, !.idx = idx])
    /\ rmw' = [rmw EXCEPT ![p] = RmwFrame(bits, {}, PrmAddr(module, idx), "idle")]
    /\ pc' = [pc EXCEPT ![p] = "rmw_read"]
    /\ log' = [log EXCEPT ![p] = <<>>]
    /\ ret' = [ret EXCEPT ![p] = 0]
    /\ val' = [val EXCEPT ![p] = {}]
    /\ UNCHANGED <<chip, mem>>

---------------------------------------------------------------------------
(* the hardreset lines *)

\* the gate, inverted: if (!(cpu_is_omap24xx() || cpu_is_omap34xx())) return -EINVAL;
\* omap2_prm_read_mod_bits_shift(domain, idx, mask): one read, the field
\* under mask moved down by __ffs(mask); nothing tests mask before __ffs()
omap2_prm_read_mod_bits_shift(p, domain, idx, mask) ==
    LET a == PrmAddr(domain, idx)
        x == omap2_prm_read_mod_reg(mem, domain, idx)
    IN  /\ EnterCall(p, "read_bits", [NoArgs EXCEPT !.mod = domain, !.idx = idx,
                                                      !.mask = mask])
        /\ undef' = [undef EXCEPT ![p] = (mask = {})]
        /\ \E k \in FfsOutcomes(mask) :
              val' = [val EXCEPT ![p] = ShiftedBits(x, mask, k)]
        /\ log' = [log EXCEPT ![p] = <<RD(a, x)>>]
        /\ ret' = [ret EXCEPT ![p] = 0]
        /\ rmw' = [rmw EXCEPT ![p] = NoFrame]
        /\ UNCHANGED <<chip, mem, pc>>

InvalidChip_nogate == FALSE

InvalidChip == ~chip

\* omap2_prm_deassert_hardreset, line 147: the line is already out of reset
IsDeasserted_inverted(x, rst_shift) == BitsShift(x, Bit(rst_shift)) # {}

IsDeasserted(x, rst_shift) == BitsShift(x, Bit(rst_shift)) = {}

IsHardresetAsserted_noshift(p, prm_mod, shift) ==
    /\ Enter(p, "is_asserted", [NoArgs EXCEPT !.mod = prm_mod, !.rst = shift])
    /\ IF InvalidChip
       THEN ReturnEINVAL(p)
       ELSE LET a == RstCtrlAddr(prm_mod)
                x == RawRead(mem, a)
            IN /\ ret' = [ret EXCEPT ![p] = U32ToInt(And(x, Bit(shift)))]
               /\ val' = [val EXCEPT ![p] = {}]
               /\ log' = [log EXCEPT ![p] = <<RD(a, x)>>]
               /\ pc' = [pc EXCEPT ![p] = "idle"]
               /\ rmw' = [rmw EXCEPT ![p] = NoFrame]
               /\ UNCHANGED <<chip, mem>>

\* int omap2_prm_is_hardreset_asserted(s16 prm_mod, u8 shift)
IsHardresetAsserted(p, prm_mod, shift) ==
    /\ Enter(p, "is_asserted", [NoArgs EXCEPT !.mod = prm_mod, !.rst = shift])
    /\ IF InvalidChip
       THEN ReturnEINVAL(p)
       ELSE LET a == RstCtrlAddr(prm_mod)
                x == RawRead(mem, a)
            IN /\ ret' = [ret EXCEPT ![p] = U32ToInt(BitsShift(x, Bit(shift)))]
               /\ val' = [val EXCEPT ![p] = {}]
               /\ log' = [log EXCEPT ![p] = <<RD(a, x)>>]
               /\ pc' = [pc EXCEPT ![p] = "idle"]
               /\ rmw' = [rmw EXCEPT ![p] = NoFrame]
               /\ UNCHANGED <<chip, mem>>

AssertCall_allmask(p, prm_mod, shift) ==
    /\ Enter(p, "assert", [NoArgs EXCEPT !.mod = prm_mod, !.rst = shift])
    /\ IF InvalidChip
       THEN ReturnEINVAL(p)
       ELSE /\ rmw' = [rmw EXCEPT ![p] =
                         RmwFrame(U32Ones, Bit(shift), RstCtrlAddr(prm_mod), "as_ret")]
            /\ pc' = [pc EXCEPT ![p] = "rmw_read"]
            /\ log' = [log EXCEPT ![p] = <<>>]
            /\ ret' = [ret EXCEPT ![p] = 0]
            /\ val' = [val EXCEPT ![p] = {}]
            /\ UNCHANGED <<chip, mem>>

\* int omap2_prm_assert_hardreset(s16 prm_mod, u8 shift), up to the rmw call
AssertCall(p, prm_mod, shift) ==
    /\ Enter(p, "assert", [NoArgs EXCEPT !.mod = prm_mod, !.rst = shift])
    /\ IF InvalidChip
       THEN ReturnEINVAL(p)
       ELSE /\ rmw' = [rmw EXCEPT ![p] =
                         RmwFrame(Bit(shift), Bit(shift), RstCtrlAddr(prm_mod), "as_ret")]
            /\ pc' = [pc EXCEPT ![p] = "rmw_read"]
            /\ log' = [log EXCEPT ![p] = <<>>]
            /\ ret' = [ret EXCEPT ![p] = 0]
            /\ val' = [val EXCEPT ![p] = {}]
            /\ UNCHANGED <<chip, mem>>

\* omap2_prm_assert_hardreset: return 0;
AssertReturn(p) ==
    /\ pc[p] = "as_ret"
    /\ ret' = [ret EXCEPT ![p] = 0]
    /\ pc' = [pc EXCEPT ![p] = "idle"]
    /\ UNCHANGED <<chip, mem, op, args, rmw, c, val, log, raced, prev, hwev, undef>>

\* omap_test_timeout(cond, timeout, index): the loop test index < timeout
omap_test_timeout(index) == index < MAX_MODULE_HARDRESET_WAIT

\* return (c > MAX_MODULE_HARDRESET_WAIT) ? -EBUSY : 0;
DeassertResult_gt(index) == IF index > MAX_MODULE_HARDRESET_WAIT THEN -EBUSY ELSE 0

\* return (c == MAX_MODULE_HARDRESET_WAIT) ? -EBUSY : 0;
DeassertResult(index) == IF index = MAX_MODULE_HARDRESET_WAIT THEN -EBUSY ELSE 0

\* int omap2_prm_deassert_hardreset(prm_mod, rst_shift, st_shift), up to the
\* check of the current state of the line
DeassertCall(p, prm_mod, rst_shift, st_shift) ==
    /\ Enter(p, "deassert", [NoArgs EXCEPT !.mod = prm_mod, !.rst = rst_shift,
                                           !.st = st_shift])
    /\ IF InvalidChip
       THEN ReturnEINVAL(p)
       ELSE LET a == RstCtrlAddr(prm_mod)
                x == RawRead(mem, a)
            IN /\ log' = [log EXCEPT ![p] = <<RD(a, x)>>]
               /\ val' = [val EXCEPT ![p] = {}]
               /\ IF IsDeasserted(x, rst_shift)
                  THEN /\ ret' = [ret EXCEPT ![p] = -EEXIST]
                       /\ pc' = [pc EXCEPT ![p] = "idle"]
                  ELSE /\ ret' = [ret EXCEPT ![p] = 0]
                       /\ pc' = [pc EXCEPT ![p] = "da_clear_st"]
               /\ rmw' = [rmw EXCEPT ![p] = NoFrame]
               /\ UNCHANGED <<chip, mem>>

\* the status is not cleared before the line is de-asserted
DeassertClearStatus_skipped(p) ==
    /\ pc[p] = "da_clear_st"
    /\ pc' = [pc EXCEPT ![p] = "da_deassert"]
    /\ UNCHANGED <<chip, mem, op, args, rmw, c, ret, val, log, raced, prev, hwev, undef>>

\* the status bit alone is the mask: the other latched bits are written back
DeassertClearStatus_maskst(p) ==
    /\ pc[p] = "da_clear_st"
    /\ rmw' = [rmw EXCEPT ![p] =
                 RmwFrame(Bit(args[p].st), Bit(args[p].st), RstStAddr(args[p].mod),
                          "da_deassert")]
    /\ pc' = [pc EXCEPT ![p] = "rmw_read"]
    /\ UNCHANGED <<chip, mem, op, args, c, ret, val, log, raced, prev, hwev, undef>>

\* omap2_prm_rmw_mod_reg_bits(0xffffffff, st, prm_mod, OMAP2_RM_RSTST);
DeassertClearStatus(p) ==
    /\ pc[p] = "da_clear_st"
    /\ rmw' = [rmw EXCEPT ![p] =
                 RmwFrame(U32Ones, Bit(args[p].st), RstStAddr(args[p].mod), "da_deassert")]
    /\ pc' = [pc EXCEPT ![p] = "rmw_read"]
    /\ UNCHANGED <<chip, mem, op, args, c, ret, val, log, raced, prev, hwev, undef>>

\* the reset bit is written back set
DeassertClearControl_noclear(p) ==
    /\ pc[p] = "da_deassert"
    /\ rmw' = [rmw EXCEPT ![p] =
                 RmwFrame(Bit(args[p].rst), Bit(args[p].rst), RstCtrlAddr(args[p].mod),
                          "da_wait")]
    /\ pc' = [pc EXCEPT ![p] = "rmw_read"]
    /\ UNCHANGED <<chip, mem, op, args, c, ret, val, log, raced, prev, hwev, undef>>

\* omap2_prm_rmw_mod_reg_bits(rst, 0, prm_mod, OMAP2_RM_RSTCTRL);
DeassertClearControl(p) ==
    /\ pc[p] = "da_deassert"
    /\ rmw' = [rmw EXCEPT ![p] =
                 RmwFrame(Bit(args[p].rst), {}, RstCtrlAddr(args[p].mod), "da_wait")]
    /\ pc' = [pc EXCEPT ![p] = "rmw_read"]
    /\ UNCHANGED <<chip, mem, op, args, c, ret, val, log, raced, prev, hwev, undef>>

\* omap_test_timeout: for (c = 0; ...
DeassertWaitInit(p) ==
    /\ pc[p] = "da_wait"
    /\ c' = [c EXCEPT ![p] = 0]
    /\ pc' = [pc EXCEPT ![p] = "da_poll"]
    /\ UNCHANGED <<chip, mem, op, args, rmw, ret, val, log, raced, prev, hwev, undef>>

\* omap_test_timeout: one pass of the loop body: read RSTST, break when the
\* status bit is set (and return), else udelay(1) and c++
DeassertPoll(p) ==
    /\ pc[p] = "da_poll"
    /\ omap_test_timeout(c[p])
    /\ LET a == RstStAddr(args[p].mod)
           x == RawRead(mem, a)
       IN /\ log' = [log EXCEPT ![p] = Append(@, RD(a, x))]
          /\ IF BitsShift(x, Bit(args[p].st)) # {}
             THEN /\ ret' = [ret EXCEPT ![p] = DeassertResult(c[p])]
                  /\ pc' = [pc EXCEPT ![p] = "idle"]
                  /\ c' = c
             ELSE /\ c' = [c EXCEPT ![p] = @ + 1]
                  /\ UNCHANGED <<ret, pc>>
    /\ UNCHANGED <<chip, mem, op, args, rmw, val, raced, prev, hwev, undef>>

\* the whole sequence is tried again when the wait timed out
DeassertLoopExit_retry(p) ==
    /\ pc[p] = "da_poll"
    /\ ~omap_test_timeout(c[p])
    /\ pc' = [pc EXCEPT ![p] = "da_clear_st"]
    /\ UNCHANGED <<chip, mem, op, args, rmw, c, ret, val, log, raced, prev, hwev, undef>>

\* omap_test_timeout: the loop test failed; return
DeassertLoopExit(p) ==
    /\ pc[p] = "da_poll"
    /\ ~omap_test_timeout(c[p])
    /\ ret' = [ret EXCEPT ![p] = DeassertResult(c[p])]
    /\ pc' = [pc EXCEPT ![p] = "idle"]
    /\ UNCHANGED <<chip, mem, op, args, rmw, c, val, log, raced, prev, hwev, undef>>

---------------------------------------------------------------------------
(* PRM VP *)

\* the table with the ABB mask given to the core rail as well
omap3_prm_irqs_coreabb ==
    [i \in IrqIds |->
        IF i = OMAP3_PRM_IRQ_VDD_MPU_ID
        THEN [vp_tranxdone_status |-> OMAP3430_VP1_TRANXDONE_ST_MASK,
              abb_tranxdone_status |-> OMAP3630_ABB_LDO_TRANXDONE_ST_MASK]
        ELSE [vp_tranxdone_status |-> OMAP3430_VP2_TRANXDONE_ST_MASK,
              abb_tranxdone_status |-> OMAP3630_ABB_LDO_TRANXDONE_ST_MASK]]

\* omap3_prm_irqs[]
omap3_prm_irqs ==
    [i \in IrqIds |->
        IF i = OMAP3_PRM_IRQ_VDD_MPU_ID
        THEN [vp_tranxdone_status |-> OMAP3430_VP1_TRANXDONE_ST_MASK,
              abb_tranxdone_status |-> OMAP3630_ABB_LDO_TRANXDONE_ST_MASK]
        ELSE [vp_tranxdone_status |-> OMAP3430_VP2_TRANXDONE_ST_MASK,
              abb_tranxdone_status |-> {}]]

\* u32 omap3_prm_vp_check_txdone(u8 irq_id)
VpCheckTxdone(p, irq_id) ==
    /\ Enter(p, "vp_check", [NoArgs EXCEPT !.id = irq_id])
    /\ LET irqstatus == omap2_prm_read_mod_reg(mem, OCP_MOD, OMAP3_PRM_IRQSTATUS_MPU_OFFSET)
       IN /\ val' = [val EXCEPT ![p] =
                       And(irqstatus, omap3_prm_irqs[irq_id].vp_tranxdone_status)]
          /\ log' = [log EXCEPT ![p] = <<RD(IrqStatusAddr, irqstatus)>>]
    /\ ret' = [ret EXCEPT ![p] = 0]
    /\ rmw' = [rmw EXCEPT ![p] = NoFrame]
    /\ UNCHANGED <<chip, mem, pc>>

\* the ABB mask of the rail is written instead of its VP mask
VpClearTxdone_abb(p, irq_id) ==
    /\ Enter(p, "vp_clear", [NoArgs EXCEPT !.id = irq_id])
    /\ LET x == omap3_prm_irqs[irq_id].abb_tranxdone_status
       IN /\ mem' = omap2_prm_write_mod_reg(mem, x, OCP_MOD, OMAP3_PRM_IRQSTATUS_MPU_OFFSET)
          /\ log' = [log EXCEPT ![p] = <<WR(IrqStatusAddr, x)>>]
    /\ ret' = [ret EXCEPT ![p] = 0]
    /\ val' = [val EXCEPT ![p] = {}]
    /\ rmw' = [rmw EXCEPT ![p] = NoFrame]
    /\ UNCHANGED <<chip, pc>>

\* the VP masks of both rails are written
VpClearTxdone_both(p, irq_id) ==
    /\ Enter(p, "vp_clear", [NoArgs EXCEPT !.id = irq_id])
    /\ LET x == Or(OMAP3430_VP1_TRANXDONE_ST_MASK, OMAP3430_VP2_TRANXDONE_ST_MASK)
       IN /\ mem' = omap2_prm_write_mod_reg(mem, x, OCP_MOD, OMAP3_PRM_IRQSTATUS_MPU_OFFSET)
          /\ log' = [log EXCEPT ![p] = <<WR(IrqStatusAddr, x)>>]
    /\ ret' = [ret EXCEPT ![p] = 0]
    /\ val' = [val EXCEPT ![p] = {}]
    /\ rmw' = [rmw EXCEPT ![p] = NoFrame]
    /\ UNCHANGED <<chip, pc>>

\* void omap3_prm_vp_clear_txdone(u8 irq_id)
VpClearTxdone(p, irq_id) ==
    /\ Enter(p, "vp_clear", [NoArgs EXCEPT !.id = irq_id])
    /\ LET x == omap3_prm_irqs[irq_id].vp_tranxdone_status
       IN /\ mem' = omap2_prm_write_mod_reg(mem, x, OCP_MOD, OMAP3_PRM_IRQSTATUS_MPU_OFFSET)
          /\ log' = [log EXCEPT ![p] = <<WR(IrqStatusAddr, x)>>]
    /\ ret' = [ret EXCEPT ![p] = 0]
    /\ val' = [val EXCEPT ![p] = {}]
    /\ rmw' = [rmw EXCEPT ![p] = NoFrame]
    /\ UNCHANGED <<chip, pc>>

\* u32 omap36xx_prm_abb_check_txdone(u8 irq_id)
omap36xx_prm_abb_check_txdone(p, irq_id) ==
    /\ Enter(p, "abb_check", [NoArgs EXCEPT !.id = irq_id])
    /\ LET irqstatus == omap2_prm_read_mod_reg(mem, OCP_MOD, OMAP3_PRM_IRQSTATUS_MPU_OFFSET)
       IN /\ val' = [val EXCEPT ![p] =
                       And(irqstatus, omap3_prm_irqs[irq_id].abb_tranxdone_status)]
          /\ log' = [log EXCEPT ![p] = <<RD(IrqStatusAddr, irqstatus)>>]
    /\ ret' = [ret EXCEPT ![p] = 0]
    /\ rmw' = [rmw EXCEPT ![p] = NoFrame]
    /\ UNCHANGED <<chip, mem, pc>>

\* void omap36xx_prm_abb_clear_txdone(u8 irq_id)
omap36xx_prm_abb_clear_txdone(p, irq_id) ==
    /\ Enter(p, "abb_clear", [NoArgs EXCEPT !.id = irq_id])
    /\ LET x == omap3_prm_irqs[irq_id].abb_tranxdone_status
       IN /\ mem' = omap2_prm_write_mod_reg(mem, x, OCP_MOD, OMAP3_PRM_IRQSTATUS_MPU_OFFSET)
          /\ log' = [log EXCEPT ![p] = <<WR(IrqStatusAddr, x)>>]
    /\ ret' = [ret EXCEPT ![p] = 0]
    /\ val' = [val EXCEPT ![p] = {}]
    /\ rmw' = [rmw EXCEPT ![p] = NoFrame]
    /\ UNCHANGED <<chip, pc>>

---------------------------------------------------------------------------
(* the router of CONFIG_MACH_OMAP_LATONA *)

\* u32 cm_read_mod_reg(s16 module, u16 idx)
cm_read_mod_reg(p, module, idx) ==
    /\ Enter(p, "cm_read", [NoArgs EXCEPT !.mod = module, !.idx = idx])
    /\ LET region == BaseRegion(DecodeBase(module))
           a == PrcmAddr(region, DecodeModule(module), idx)
       IN IF region = "none"
          THEN /\ val' = [val EXCEPT ![p] = {}]
               /\ log' = [log EXCEPT ![p] = <<>>]
          ELSE /\ val' = [val EXCEPT ![p] = RawRead(mem, a)]
               /\ log' = [log EXCEPT ![p] = <<RD(a, RawRead(mem, a))>>]
    /\ ret' = [ret EXCEPT ![p] = 0]
    /\ rmw' = [rmw EXCEPT ![p] = NoFrame]
    /\ UNCHANGED <<chip, mem, pc>>

\* void cm_write_mod_reg(u32 val, s16 module, u16 idx)
cm_write_mod_reg(p, x, module, idx) ==
    /\ Enter(p, "cm_write", [NoArgs EXCEPT !.x = x, !.mod = module, !.idx = idx])
    /\ LET region == BaseRegion(DecodeBase(module))
           a == PrcmAddr(region, DecodeModule(module), idx)
       IN IF region = "none"
          THEN /\ mem' = mem
               /\ log' = [log EXCEPT ![p] = <<>>]
          ELSE /\ mem' = RawWrite(mem, a, x)
               /\ log' = [log EXCEPT ![p] = <<WR(a, x)>>]
    /\ ret' = [ret EXCEPT ![p] = 0]
    /\ val' = [val EXCEPT ![p] = {}]
    /\ rmw' = [rmw EXCEPT ![p] = NoFrame]
    /\ UNCHANGED <<chip, pc>>

---------------------------------------------------------------------------
(* the hardware *)

\* the PRCM latches the reset status bit of a line
HwResetDone(prm_mod, st_shift) ==
    /\ st_shift \notin mem[RstStAddr(prm_mod)]
    /\ mem' = [mem EXCEPT ![RstStAddr(prm_mod)] = @ \cup Bit(st_shift)]
    /\ hwev' = TRUE
    /\ UNCHANGED <<chip, pc, op, args, rmw, c, ret, val, log, raced, prev, undef>>

\* the PRCM raises a transaction-done interrupt status bit
HwIrqRaise(b) ==
    /\ b \notin mem[IrqStatusAddr]
    /\ mem' = [mem EXCEPT ![IrqStatusAddr] = @ \cup Bit(b)]
    /\ hwev' = TRUE
    /\ UNCHANGED <<chip, pc, op, args, rmw, c, ret, val, log, raced, prev, undef>>

---------------------------------------------------------------------------
(* one caller at a time (the callers lock), and the hardware *)

\* the caller that runs when the callers lock
Boot == CHOOSE p \in Callers : \A q \in Callers : p <= q

Call(p) ==
    \/ \E mask \in RmwMasks, bits \in RmwBits, m \in PrmMods :
          RmwCall(p, mask, bits, m, OMAP2_RM_RSTCTRL)
    \/ \E m \in PrmMods, s \in RstShifts : IsHardresetAsserted(p, m, s)
    \/ \E m \in PrmMods, s \in RstShifts : AssertCall(p, m, s)
    \/ \E m \in PrmMods, s \in RstShifts, t \in StShifts : DeassertCall(p, m, s, t)

Step(p) ==
    \/ RmwRead(p)
    \/ RmwWrite(p)
    \/ AssertReturn(p)
    \/ DeassertClearStatus(p)
    \/ DeassertClearControl(p)
    \/ DeassertWaitInit(p)
    \/ DeassertPoll(p)
    \/ DeassertLoopExit(p)

Next ==
    \/ Call(Boot)
    \/ Step(Boot)
    \/ \E m \in PrmMods, t \in StShifts : HwResetDone(m, t)

Spec == Init /\ [][Next]_vars

\* the CPU runs a function it has entered to its return: the busy-wait neither
\* yields nor suspends
FairSpec == Spec /\ WF_vars(Step(Boot))

---------------------------------------------------------------------------
(* the voltage processor's transaction-done status, and the hardware *)

VpInit ==
    /\ chip = TRUE
    /\ \E irq \in SUBSET (IrqBits \cup OtherIrqBits) : mem = Mem({}, OtherStBits, irq)
    /\ InitCallers

VpNext ==
    \/ \E i \in IrqIds : VpCheckTxdone(Boot, i)
    \/ \E i \in IrqIds : VpClearTxdone(Boot, i)
    \/ \E i \in IrqIds : omap36xx_prm_abb_check_txdone(Boot, i)
    \/ \E i \in IrqIds : omap36xx_prm_abb_clear_txdone(Boot, i)
    \/ \E b \in IrqBits \cup OtherIrqBits : HwIrqRaise(b)

VpSpec == VpInit /\ [][VpNext]_vars

---------------------------------------------------------------------------
(* two callers of the read-modify-write on one register, holding no lock *)

RaceInit ==
    /\ chip = TRUE
    /\ \E ctl \in SUBSET (RstShifts \cup OtherCtrlBits) : mem = Mem(ctl, OtherStBits, {})
    /\ InitCallers

RaceNext ==
    \E p \in Callers :
        \/ \E u \in RaceUpdates, m \in PrmMods : RmwCall(p, u[1], u[2], m, OMAP2_RM_RSTCTRL)
        \/ RmwRead(p)
        \/ RmwWrite(p)

RaceSpec == RaceInit /\ [][RaceNext]_vars

---------------------------------------------------------------------------
(* the router *)

RouterInit ==
    /\ chip = TRUE
    /\ mem = Mem({}, OtherStBits, {})
    /\ InitCallers

RouterNext ==
    \/ \E m \in RouterModules, i \in RouterIdx : cm_read_mod_reg(Boot, m, i)
    \/ \E x \in RouterVals, m \in RouterModules, i \in RouterIdx :
          cm_write_mod_reg(Boot, x, m, i)

RouterSpec == RouterInit /\ [][RouterNext]_vars

---------------------------------------------------------------------------
(* the shifted field read, over register contents and masks *)

BitsInit ==
    /\ chip = TRUE
    /\ \E ctl \in BitsRegs, st \in BitsRegs : mem = Mem(ctl, st, {})
    /\ InitCallers

BitsNext ==
    \E m \in PrmMods, i \in BitsIdx, mask \in BitsMasks :
        omap2_prm_read_mod_bits_shift(Boot, m, i, mask)

BitsSpec == BitsInit /\ [][BitsNext]_vars

---------------------------------------------------------------------------
(* setting and clearing bits, one caller *)

BitOpsInit ==
    /\ chip = TRUE
    /\ \E ctl \in SUBSET (RstShifts \cup OtherCtrlBits), st \in SUBSET StShifts :
          mem = Mem(ctl, st \cup OtherStBits, {})
    /\ InitCallers

BitOpsNext ==
    \/ \E b \in SetClearBits, m \in PrmMods, i \in BitsIdx :
          omap2_prm_set_mod_reg_bits(Boot, b, m, i)
    \/ \E b \in SetClearBits, m \in PrmMods, i \in BitsIdx :
          omap2_prm_clear_mod_reg_bits(Boot, b, m, i)
    \/ RmwRead(Boot)
    \/ RmwWrite(Boot)

BitOpsSpec == BitOpsInit /\ [][BitOpsNext]_vars

---------------------------------------------------------------------------
(* what a call did, read off its log *)

Done(p, f) == pc[p] = "idle" /\ op[p] = f

IsWrite(e) == e.k = "W"

IsRead(e) == e.k = "R"

WritesOf(l) == SelectSeq(l, IsWrite)

\* the call of omap2_prm_deassert_hardreset found the line in reset
FoundAsserted(p) ==
    /\ op[p] = "deassert"
    /\ log[p] # <<>>
    /\ args[p].rst \in log[p][1].x

\* the reads of RSTST made by the wait loop: what follows the check and the
\* two read-modify-writes
PollReads(p) == SubSeq(log[p], 6, Len(log[p]))

StatusSeen(p) ==
    /\ Len(PollReads(p)) > 0
    /\ args[p].st \in log[p][Len(log[p])].x

---------------------------------------------------------------------------
(* C1: on a supported chip, a deassert of a line that is in reset, whose      *)
(* status bit the wait loop reads as 1 within its budget, has written RSTST   *)
(* (the status bit, to clear it) before it wrote RSTCTRL (the reset bit       *)
(* cleared), leaves the reset bit 0 and returns 0.                            *)

C1_DeassertAcknowledged ==
    \A p \in Callers :
        (Done(p, "deassert") /\ chip /\ FoundAsserted(p) /\ StatusSeen(p)) =>
            /\ ret[p] = 0
            /\ args[p].rst \notin mem[RstCtrlAddr(args[p].mod)]
            /\ Len(WritesOf(log[p])) = 2
            /\ LET w == WritesOf(log[p])
               IN /\ w[1] = WR(RstStAddr(args[p].mod), Bit(args[p].st))
                  /\ w[2].a = RstCtrlAddr(args[p].mod)
                  /\ args[p].rst \notin w[2].x

C1_Witness ==
    \E p \in Callers :
        /\ Done(p, "deassert") /\ chip /\ FoundAsserted(p) /\ StatusSeen(p)
        /\ ret[p] = 0
        /\ Len(PollReads(p)) > 1

---------------------------------------------------------------------------
(* C2: on a supported chip, a deassert of a line whose reset bit is already   *)
(* 0 returns -EEXIST at once and writes nothing: no register changes.         *)

C2_AlreadyDeasserted ==
    [][\A p \in Callers, m \in PrmMods, s \in RstShifts, t \in StShifts :
          (DeassertCall(p, m, s, t) /\ chip /\ s \notin mem[RstCtrlAddr(m)]) =>
              /\ ret'[p] = -EEXIST
              /\ pc'[p] = "idle"
              /\ mem' = mem
              /\ WritesOf(log'[p]) = <<>>]_vars

C2_Witness ==
    \E p \in Callers :
        /\ Done(p, "deassert") /\ chip
        /\ ret[p] = -EEXIST
        /\ log[p] = <<RD(RstCtrlAddr(args[p].mod), mem[RstCtrlAddr(args[p].mod)])>>
        /\ args[p].rst \notin mem[RstCtrlAddr(args[p].mod)]
        /\ mem[RstCtrlAddr(args[p].mod)] # {}

---------------------------------------------------------------------------
(* C3: on a supported chip, a deassert of a line that is in reset, whose      *)
(* MAX_MODULE_HARDRESET_WAIT polls all read the status bit as 0, returns      *)
(* -EBUSY, and the reset bit has been cleared all the same.                   *)

NeverSeen(p) ==
    /\ Len(PollReads(p)) = MAX_MODULE_HARDRESET_WAIT
    /\ \A i \in 1 .. Len(PollReads(p)) :
          /\ PollReads(p)[i].a = RstStAddr(args[p].mod)
          /\ args[p].st \notin PollReads(p)[i].x

C3_DeassertTimeout ==
    \A p \in Callers :
        (Done(p, "deassert") /\ chip /\ FoundAsserted(p) /\ NeverSeen(p)) =>
            /\ ret[p] = -EBUSY
            /\ args[p].rst \notin mem[RstCtrlAddr(args[p].mod)]
            /\ \E i \in 1 .. Len(log[p]) :
                  /\ IsWrite(log[p][i])
                  /\ log[p][i].a = RstCtrlAddr(args[p].mod)
                  /\ args[p].rst \notin log[p][i].x

C3_Witness ==
    \E p \in Callers :
        /\ Done(p, "deassert") /\ chip /\ FoundAsserted(p) /\ NeverSeen(p)
        /\ ret[p] = -EBUSY
        /\ args[p].rst \notin mem[RstCtrlAddr(args[p].mod)]

---------------------------------------------------------------------------
(* C6: on an unsupported chip each of is_hardreset_asserted, assert_hardreset *)
(* and deassert_hardreset returns -EINVAL having read and written no          *)
(* register, whatever the registers hold and the arguments are.               *)

HardresetOps == {"is_asserted", "assert", "deassert"}

C6_InvalidChipFirst ==
    \A p \in Callers :
        (~chip /\ op[p] \in HardresetOps) =>
            /\ pc[p] = "idle"
            /\ ret[p] = -EINVAL
            /\ log[p] = <<>>

C6_Witness ==
    \E p \in Callers :
        /\ ~chip /\ Done(p, "deassert") /\ ret[p] = -EINVAL
        /\ prev[p].op = "assert" /\ prev[p].ret = -EINVAL
        /\ args[p].rst \in mem[RstCtrlAddr(args[p].mod)]

---------------------------------------------------------------------------
(* C7: a deassert terminates whatever the hardware does: the wait loop reads  *)
(* RSTST at most MAX_MODULE_HARDRESET_WAIT times, the clear-and-deassert      *)
(* sequence is made once, and the call returns, 0 or -EBUSY once it has got   *)
(* past the checks.                                                           *)

PollBounded ==
    \A p \in Callers :
        (op[p] = "deassert" /\ chip /\ FoundAsserted(p)) =>
            /\ Len(PollReads(p)) <= MAX_MODULE_HARDRESET_WAIT
            /\ Len(WritesOf(log[p])) <= 2
            /\ c[p] <= MAX_MODULE_HARDRESET_WAIT
            /\ pc[p] = "idle" => ret[p] \in {0, -EBUSY}

C7_DeassertTerminates ==
    /\ []PollBounded
    /\ \A p \in Callers : (op[p] = "deassert" /\ pc[p] # "idle") ~> (pc[p] = "idle")

C7_Witness ==
    \E p \in Callers :
        /\ Done(p, "deassert") /\ chip /\ FoundAsserted(p)
        /\ Len(PollReads(p)) = MAX_MODULE_HARDRESET_WAIT
        /\ StatusSeen(p)
        /\ ret[p] = 0

---------------------------------------------------------------------------
(* C4: two callers of the read-modify-write on one register, holding no     *)
(* lock: a caller that writes back after the other has written the register  *)
(* since it read it restores, outside its own mask, the bits it read, so     *)
(* the update the other made there, in a disjoint mask, is lost.             *)

LastRead(p) == log[p][Len(log[p])].x

C4_LostUpdate ==
    [][\A p \in Callers :
          (RmwWrite(p) /\ raced[p]) =>
              And(mem'[rmw[p].a], Not(rmw[p].mask)) = And(LastRead(p), Not(rmw[p].mask))]_vars

C4_Witness ==
    \E p, q \in Callers :
        /\ p # q
        /\ Done(p, "rmw") /\ Done(q, "rmw")
        /\ rmw[p].a = rmw[q].a
        /\ And(args[p].mask, args[q].mask) = {}
        /\ args[p].bits \subseteq args[p].mask
        /\ args[q].bits \subseteq args[q].mask
        /\ raced[p]
        /\ And(mem[rmw[q].a], args[q].mask) # args[q].bits
        /\ And(mem[rmw[p].a], args[p].mask) = args[p].bits

---------------------------------------------------------------------------
(* C5: a read-modify-write with bits inside mask, not interrupted, writes    *)
(* the value whose bits inside mask are bits and whose bits outside mask     *)
(* are those it read; a register that stores what is written (any but the    *)
(* write-1-to-clear status registers) then holds it; no other register       *)
(* changes.                                                                  *)

C5_RmwFrame ==
    [][\A p \in Callers :
          (RmwWrite(p) /\ rmw[p].bits \subseteq rmw[p].mask) =>
              LET f == rmw[p]
                  w == log'[p][Len(log'[p])]
              IN /\ IsRead(log[p][Len(log[p])])
                 /\ log[p][Len(log[p])].a = f.a
                 /\ IsWrite(w) /\ w.a = f.a
                 /\ And(w.x, f.mask) = f.bits
                 /\ And(w.x, Not(f.mask)) = And(LastRead(p), Not(f.mask))
                 /\ ~IsW1C(f.a) =>
                        /\ And(mem'[f.a], f.mask) = f.bits
                        /\ And(mem'[f.a], Not(f.mask)) = And(mem[f.a], Not(f.mask))
                 /\ \A a \in Addrs \ {f.a} : mem'[a] = mem[a]]_vars

C5_Witness ==
    \E p \in Callers :
        /\ Done(p, "rmw")
        /\ args[p].bits \subseteq args[p].mask
        /\ args[p].bits # {}
        /\ And(log[p][1].x, Not(args[p].mask)) # {}
        /\ And(log[p][1].x, args[p].mask) # args[p].bits
        /\ mem[rmw[p].a] = Or(And(log[p][1].x, Not(args[p].mask)), args[p].bits)

---------------------------------------------------------------------------
(* C8: check_txdone of a rail returns non-zero exactly when the rail's VP    *)
(* transaction-done bit is set in PRM_IRQSTATUS_MPU, and it returns 0 when   *)
(* it follows a clear_txdone of the same rail with no hardware event in      *)
(* between (the register clears the bits written as 1).                      *)

C8_TxdoneCheckClear ==
    [][\A p \in Callers, i \in IrqIds :
          VpCheckTxdone(p, i) =>
              LET mask == omap3_prm_irqs[i].vp_tranxdone_status
              IN /\ (val'[p] # {}) <=> (mask \subseteq mem[IrqStatusAddr])
                 /\ (op[p] = "vp_clear" /\ args[p].id = i /\ ~hwev) => val'[p] = {}]_vars

C8_Witness ==
    \E p \in Callers :
        /\ Done(p, "vp_check")
        /\ prev[p].op = "vp_clear" /\ prev[p].id = args[p].id
        /\ ~hwev
        /\ val[p] = {}
        /\ (IrqBits \ omap3_prm_irqs[args[p].id].vp_tranxdone_status) \subseteq log[p][1].x

---------------------------------------------------------------------------
(* C9: the router: a decoded selector that names a region (default, PRM,     *)
(* secondary CM) sends the access to that region's base and nowhere else; a  *)
(* decoded selector that names none makes the write change no register and   *)
(* the read return 0.                                                        *)

SelectorRegion == (DEFAULT_BASE :> "cm") @@ (PRM_BASE :> "prm") @@ (CM2_BASE :> "cm2")

RouterOps == {"cm_read", "cm_write"}

C9_RouterDispatch ==
    [][\A p \in Callers, m \in RouterModules, i \in RouterIdx :
          LET sel == DecodeBase(m)
              known == sel \in DOMAIN SelectorRegion
              a == <<SelectorRegion[sel], DecodeModule(m) + i>>
          IN /\ \A x \in RouterVals :
                  cm_write_mod_reg(p, x, m, i) =>
                      IF known
                      THEN /\ log'[p] = <<WR(a, x)>>
                           /\ mem'[a] = x
                           /\ \A b \in Addrs \ {a} : mem'[b] = mem[b]
                      ELSE mem' = mem /\ log'[p] = <<>>
             /\ cm_read_mod_reg(p, m, i) =>
                  /\ mem' = mem
                  /\ IF known
                     THEN val'[p] = mem[a] /\ log'[p] = <<RD(a, mem[a])>>
                     ELSE val'[p] = {} /\ log'[p] = <<>>]_vars

C9_Witness ==
    \E p \in Callers :
        /\ Done(p, "cm_write")
        /\ DecodeBase(args[p].mod) \notin DOMAIN SelectorRegion
        /\ args[p].x # {}
        /\ log[p] = <<>>
        /\ prev[p].op = "cm_write"
        /\ \A r \in Regions : \E a \in RouterAddrs : a[1] = r /\ mem[a] # {}

---------------------------------------------------------------------------
(* C10: which bits of the encoded module the router uses.                    *)

\* the field of width bits at bit lo of the 16 bits of an s16
Field(n, lo, width) == ((IF n < 0 THEN n + 65536 ELSE n) \div (2 ^ lo)) % (2 ^ width)

\* the call went to the region of selector sel at module offset off, or
\* nowhere when sel names no region
RoutedAs(p, sel, off) ==
    IF sel \in DOMAIN SelectorRegion
    THEN /\ Len(log[p]) = 1
         /\ log[p][1].a = <<SelectorRegion[sel], off + args[p].idx>>
    ELSE log[p] = <<>>

\* C10 as claimed: for every encoded module, negative ones included, the
\* selector is bits 13-14 and the module offset bits 0-12.
C10_SelectorIsBits13To14 ==
    \A p \in Callers :
        op[p] \in RouterOps =>
            RoutedAs(p, Field(args[p].mod, 13, 2), Field(args[p].mod, 0, 13))

\* C10 amended: the module offset is bits 0-12 of every encoded module; the
\* selector is bits 13-14 of a non-negative encoded module, and of a
\* negative one it is -encodedModule >> 13 (4, which names no region, for
\* -32768).
C10_SelectorOfMagnitude ==
    \A p \in Callers :
        op[p] \in RouterOps =>
            LET m == args[p].mod
            IN RoutedAs(p, IF m >= 0 THEN Field(m, 13, 2) ELSE (-m) \div 8192,
                        Field(m, 0, 13))

C10_Witness ==
    \E p \in Callers :
        /\ op[p] \in RouterOps
        /\ args[p].mod < 0
        /\ Field(args[p].mod, 13, 2) \in DOMAIN SelectorRegion
        /\ (-args[p].mod) \div 8192 \in DOMAIN SelectorRegion
        /\ log[p] # <<>>
        /\ log[p][1].a[1] # SelectorRegion[Field(args[p].mod, 13, 2)]

---------------------------------------------------------------------------
(* C11: for every register value and every non-zero mask the shifted field   *)
(* read returns (register AND mask) moved down by the index of the lowest    *)
(* set bit of mask, and changes no register; with the contiguous mask        *)
(* 0b0000_1111_0000 on a register 0bXXXX_1010_XXXX it returns 0b1010.        *)

LowestBit(mask) == CHOOSE i \in mask : \A j \in mask : i <= j

C11_ReadShiftedBits ==
    [][\A p \in Callers, m \in PrmMods, i \in BitsIdx, mask \in BitsMasks :
          (mask # {} /\ omap2_prm_read_mod_bits_shift(p, m, i, mask)) =>
              LET x == mem[PrmAddr(m, i)]
              IN  /\ val'[p] = {b - LowestBit(mask) : b \in x \cap mask}
                  /\ (mask = 4 .. 7 /\ x \cap mask = {5, 7} => val'[p] = {1, 3})
                  /\ mem' = mem
                  /\ WritesOf(log'[p]) = <<>>
                  /\ ~undef'[p]]_vars

C11_Witness ==
    \E p \in Callers :
        /\ Done(p, "read_bits")
        /\ args[p].mask = 4 .. 7
        /\ log[p][1].x \cap (4 .. 7) = {5, 7}
        /\ log[p][1].x \ (4 .. 7) # {}
        /\ val[p] = {1, 3}

---------------------------------------------------------------------------
(* C12: the shifted field read called with mask = 0 is guarded: it returns   *)
(* 0 or fails explicitly, and never takes its shift amount from the lowest   *)
(* set bit of zero.                                                          *)

C12_ZeroMaskGuarded ==
    \A p \in Callers :
        (Done(p, "read_bits") /\ args[p].mask = {}) =>
            /\ ~undef[p]
            /\ val[p] = {} \/ ret[p] < 0

---------------------------------------------------------------------------
(* C13: set_mod_reg_bits(b) writes old OR b and clear_mod_reg_bits(b) writes *)
(* old AND NOT b, old being the value read; a register that stores what is   *)
(* written then holds that value.                                            *)

C13_SetClearBits ==
    \A p \in Callers :
        (Done(p, "set_bits") \/ Done(p, "clear_bits")) =>
            LET a == PrmAddr(args[p].mod, args[p].idx)
                b == args[p].bits
                old == log[p][1].x
                new == IF op[p] = "set_bits" THEN old \cup b ELSE old \ b
            IN  /\ log[p] = <<RD(a, old), WR(a, new)>>
                /\ ~IsW1C(a) => mem[a] = new

C13_Witness ==
    \E p \in Callers :
        /\ Done(p, "clear_bits")
        /\ prev[p].op = "set_bits"
        /\ ~IsW1C(PrmAddr(args[p].mod, args[p].idx))
        /\ args[p].bits = {1, 2}
        /\ log[p][1].x = {0, 1, 2}
        /\ mem[PrmAddr(args[p].mod, args[p].idx)] = Bit(0)

---------------------------------------------------------------------------
(* C14: on a supported chip assert_hardreset returns 0 having made one read  *)
(* and one write of RSTCTRL and no access to RSTST (it polls nothing): the   *)
(* write sets bit shift and keeps every other bit as read, so a line that    *)
(* is already asserted is written back as it was.                            *)

C14_AssertHardreset ==
    \A p \in Callers :
        (Done(p, "assert") /\ chip) =>
            LET a == RstCtrlAddr(args[p].mod)
                old == log[p][1].x
            IN  /\ ret[p] = 0
                /\ log[p] = <<RD(a, old), WR(a, old \cup {args[p].rst})>>
                /\ mem[a] \ {args[p].rst} = old \ {args[p].rst}
                /\ args[p].rst \in mem[a]
                /\ args[p].rst \in old => mem[a] = old

C14_Witness ==
    \E p \in Callers :
        /\ Done(p, "assert") /\ chip
        /\ prev[p].op = "assert" /\ prev[p].rst = args[p].rst /\ prev[p].ret = 0
        /\ OtherCtrlBits \subseteq log[p][1].x
        /\ RstShifts \ log[p][1].x # {}
        /\ mem[RstCtrlAddr(args[p].mod)] = log[p][1].x

---------------------------------------------------------------------------
(* C15: on a supported chip is_hardreset_asserted returns 1 when bit shift  *)
(* of RSTCTRL is set and 0 when it is clear, and writes no register; called  *)
(* next after an assert_hardreset of the same line it returns 1, and next    *)
(* after a deassert_hardreset of the same line that got past the             *)
(* already-deasserted check (it returned 0 or -EBUSY) it returns 0.          *)

C15_IsHardresetAsserted ==
    [][\A p \in Callers, m \in PrmMods, s \in RstShifts :
          (chip /\ IsHardresetAsserted(p, m, s)) =>
              LET same == args[p].mod = m /\ args[p].rst = s
              IN  /\ ret'[p] = IF s \in mem[RstCtrlAddr(m)] THEN 1 ELSE 0
                  /\ mem' = mem
                  /\ WritesOf(log'[p]) = <<>>
                  /\ (op[p] = "assert" /\ same) => ret'[p] = 1
                  /\ (op[p] = "deassert" /\ same /\ ret[p] \in {0, -EBUSY})
                        => ret'[p] = 0]_vars

C15_Witness ==
    \E p \in Callers :
        /\ Done(p, "is_asserted") /\ chip
        /\ prev[p].op = "deassert" /\ prev[p].ret = -EBUSY
        /\ prev[p].rst = args[p].rst
        /\ OtherCtrlBits \subseteq log[p][1].x
        /\ ret[p] = 0

---------------------------------------------------------------------------
(* C16: the read-modify-write returns the value it has just written,         *)
(* (old AND NOT mask) OR bits with old the value it read, and not the old    *)
(* value; this is so when bits is not a subset of mask as well.              *)

C16_RmwReturnsWritten ==
    \A p \in Callers :
        Done(p, "rmw") =>
            LET old == log[p][1].x
                new == (old \ args[p].mask) \cup args[p].bits
            IN  /\ Len(log[p]) = 2
                /\ IsRead(log[p][1]) /\ IsWrite(log[p][2])
                /\ log[p][2].x = new
                /\ val[p] = new

C16_Witness ==
    \E p \in Callers :
        /\ Done(p, "rmw")
        /\ ~(args[p].bits \subseteq args[p].mask)
        /\ val[p] # log[p][1].x
        /\ val[p] = log[p][2].x

---------------------------------------------------------------------------
(* C17: for the core rail, whose ABB mask is zero, abb_check_txdone returns  *)
(* 0 whatever PRM_IRQSTATUS_MPU holds, and abb_clear_txdone writes the value *)
(* 0, which clears no bit of the write-1-to-clear register.                  *)

C17_CoreRailAbb ==
    [][\A p \in Callers :
          /\ omap36xx_prm_abb_check_txdone(p, OMAP3_PRM_IRQ_VDD_CORE_ID) =>
                val'[p] = {} /\ mem' = mem
          /\ omap36xx_prm_abb_clear_txdone(p, OMAP3_PRM_IRQ_VDD_CORE_ID) =>
                log'[p] = <<WR(IrqStatusAddr, {})>> /\ mem' = mem]_vars

C17_Witness ==
    \E p \in Callers :
        /\ Done(p, "abb_check")
        /\ args[p].id = OMAP3_PRM_IRQ_VDD_CORE_ID
        /\ prev[p].op = "abb_clear" /\ prev[p].id = OMAP3_PRM_IRQ_VDD_CORE_ID
        /\ ~hwev
        /\ IrqBits \subseteq log[p][1].x
        /\ val[p] = {}

---------------------------------------------------------------------------
(* C18: a deassert_hardreset called next after a deassert_hardreset of the   *)
(* same line that returned -EBUSY returns -EEXIST at once: it reads RSTCTRL, *)
(* writes nothing (the status bit is not cleared) and polls nothing.  A      *)
(* deassert goes on to the wait only when it finds the line asserted.        *)

C18_TimeoutNotRepeated ==
    [][\A p \in Callers, m \in PrmMods, s \in RstShifts, t \in StShifts :
          (chip /\ DeassertCall(p, m, s, t)) =>
              LET a == RstCtrlAddr(m)
              IN  /\ (op[p] = "deassert" /\ args[p].mod = m /\ args[p].rst = s
                          /\ ret[p] = -EBUSY)
                        => /\ ret'[p] = -EEXIST
                           /\ pc'[p] = "idle"
                           /\ log'[p] = <<RD(a, mem[a])>>
                           /\ mem' = mem
                  /\ pc'[p] # "idle" => s \in mem[a]]_vars

C18_Witness ==
    \E p \in Callers :
        /\ Done(p, "deassert") /\ chip
        /\ prev[p].op = "deassert" /\ prev[p].ret = -EBUSY
        /\ prev[p].rst = args[p].rst
        /\ ret[p] = -EEXIST
        /\ Len(log[p]) = 1
        /\ args[p].st \notin mem[RstStAddr(args[p].mod)]

---------------------------------------------------------------------------
(* C19: the status-clear step of deassert_hardreset writes to RSTST a value  *)
(* in which bit st_shift alone is set, whatever it read, so the              *)
(* write-1-to-clear register loses that line's status bit and no other       *)
(* latched bit; no other register changes.                                   *)

C19_StatusClearOneBit ==
    [][\A p \in Callers :
          (op[p] = "deassert" /\ rmw[p].cont = "da_deassert" /\ RmwWrite(p)) =>
              LET a == RstStAddr(args[p].mod)
              IN  /\ log'[p][Len(log'[p])] = WR(a, Bit(args[p].st))
                  /\ mem'[a] = mem[a] \ {args[p].st}
                  /\ \A b \in Addrs \ {a} : mem'[b] = mem[b]]_vars

C19_Witness ==
    \E p \in Callers :
        /\ op[p] = "deassert" /\ pc[p] = "da_deassert"
        /\ Len(log[p]) = 3
        /\ args[p].st \in log[p][2].x
        /\ log[p][3] = WR(RstStAddr(args[p].mod), Bit(args[p].st))
        /\ mem[RstStAddr(args[p].mod)] = (StShifts \cup OtherStBits) \ {args[p].st}

---------------------------------------------------------------------------
(* C20: vp_clear_txdone of a rail writes exactly that rail's VP mask to      *)
(* PRM_IRQSTATUS_MPU, so the register loses that rail's VP bit only; every   *)
(* vp_check_txdone and vp_clear_txdone of one rail leaves the other rail's   *)
(* VP bit and the ABB bit as they were, so what vp_check_txdone of the       *)
(* other rail returns is not changed by them.                                *)

RailVpMask(i) ==
    IF i = OMAP3_PRM_IRQ_VDD_MPU_ID THEN OMAP3430_VP1_TRANXDONE_ST_MASK
    ELSE OMAP3430_VP2_TRANXDONE_ST_MASK

C20_RailsIndependent ==
    [][\A p \in Callers, i \in IrqIds :
          /\ VpClearTxdone(p, i) =>
                /\ log'[p] = <<WR(IrqStatusAddr, RailVpMask(i))>>
                /\ mem'[IrqStatusAddr] = mem[IrqStatusAddr] \ RailVpMask(i)
                /\ \A b \in Addrs \ {IrqStatusAddr} : mem'[b] = mem[b]
          /\ (VpCheckTxdone(p, i) \/ VpClearTxdone(p, i)) =>
                /\ \A j \in IrqIds \ {i} :
                      And(mem'[IrqStatusAddr], RailVpMask(j))
                          = And(mem[IrqStatusAddr], RailVpMask(j))
                /\ And(mem'[IrqStatusAddr], OMAP3630_ABB_LDO_TRANXDONE_ST_MASK)
                      = And(mem[IrqStatusAddr], OMAP3630_ABB_LDO_TRANXDONE_ST_MASK)]_vars

C20_Witness ==
    \E p \in Callers :
        /\ Done(p, "vp_check") /\ ~hwev
        /\ prev[p].op = "vp_clear" /\ prev[p].id # args[p].id
        /\ val[p] = RailVpMask(args[p].id)
        /\ OMAP3630_ABB_LDO_TRANXDONE_ST_MASK \subseteq mem[IrqStatusAddr]
        /\ And(mem[IrqStatusAddr], RailVpMask(prev[p].id)) = {}

===========================================================================
